---- MODULE Spec2Model ----
(***************************************************************************)
(* A model of src/src/DarkModeProvider.tsx: the DarkModeProvider React     *)
(* component, its initial colour-scheme resolution, its update path and    *)
(* its media-query listeners, together with the part of the host           *)
(* (localStorage, window.matchMedia) the component calls.                  *)
(*                                                                         *)
(* Host semantics the component relies on:                                 *)
(*  - window.matchMedia(q) returns a NEW MediaQueryList object on every    *)
(*    call (CSSOM View, "matchMedia(query)": "Return a new MediaQueryList  *)
(*    object"), and listeners belong to the object they were added to.     *)
(*    A change of a query's result is reported, as a 'change' event whose  *)
(*    matches flag is the new result, to every MediaQueryList of the       *)
(*    document for that query, oldest first.                               *)
(*  - evaluating the global `localStorage` yields the Storage object,      *)
(*    a falsy value (hosts that expose null), or raises (identifier not    *)
(*    declared, or access denied by the host).                             *)
(*  - React runs the useState initializer once per instance, runs an       *)
(*    effect's cleanup before re-running the effect and on unmount, and    *)
(*    ignores a state update of an unmounted instance.                     *)
(***************************************************************************)
EXTENDS Integers, Sequences, FiniteSets, TLC

\* ------------------------------------------------------------ bounds

\* Number of commits (a mount or a re-render with changed inputs) in a run.
\* A re-render changes one input at a time (see UpdateProps).
MaxRenders == 2

\* The keys of the store the model follows: the default key and another one.
Keys == {"__userColorScheme", "altKey"}

\* The strings an entry of the store may hold before the program runs.
StoredStrings == {"dark", "light", "", "Dark"}

\* ------------------------------------------------------------ constants

colorSchemes == [dark |-> "dark", light |-> "light", noPreference |-> "no-preference"]

defaultConfig ==
    [localStorageKey |-> "__userColorScheme",
     listenWindowEvents |-> TRUE,
     useLocalStorage |-> FALSE]

DarkModeValues == {colorSchemes.dark, colorSchemes.light}

Channels == {colorSchemes.dark, colorSchemes.light, colorSchemes.noPreference}

\* ------------------------------------------------------------ state

VARIABLES
    ls,          \* what evaluating `localStorage` gives: "ok", "falsy", "throws"
    mm,          \* window.matchMedia: "absent", "unsupported", "supported"
    matches,     \* current result of the dark and light queries
    store,       \* localStorage contents: key -> {} (no entry) or {string}
    mounted,     \* a provider instance is live
    inst,        \* identity of the current (or last) provider instance
    renders,     \* commits so far
    props,       \* the inputs of the current render, after defaulting
    colorScheme, \* the useState cell
    cleanup,     \* the last effect run returned a cleanup function
    listeners,   \* change listeners held by the host's MediaQueryLists
    raised,      \* an exception escaped the program
    injected,    \* the props the wrapped component received at its last render
    last         \* the last operation, its inputs and what it did

vars == <<ls, mm, matches, store, mounted, inst, renders, props, colorScheme,
          cleanup, listeners, raised, injected, last>>

host == <<ls, mm>>

\* ------------------------------------------------------------ inputs

\* The config objects a caller passes: any subset of the three fields.
ConfigFull ==
    [localStorageKey |-> "altKey", listenWindowEvents |-> FALSE, useLocalStorage |-> TRUE]

ConfigInputs ==
    {[f \in D |-> ConfigFull[f]] : D \in SUBSET (DOMAIN ConfigFull)}

Undefined == "undefined"

\* defaultValue as passed: left out (the parameter default, light, applies) or dark.
DefaultValueInputs == {Undefined, colorSchemes.dark}

\* Destructuring with defaults and { ...defaultConfig, ...config }.
MergeProps(defaultValue, config) ==
    [defaultValue |-> IF defaultValue = Undefined THEN colorSchemes.light ELSE defaultValue,
     listenWindowEvents |->
        IF "listenWindowEvents" \in DOMAIN config
        THEN config.listenWindowEvents ELSE defaultConfig.listenWindowEvents,
     useLocalStorage |->
        IF "useLocalStorage" \in DOMAIN config
        THEN config.useLocalStorage ELSE defaultConfig.useLocalStorage,
     localStorageKey |->
        IF "localStorageKey" \in DOMAIN config
        THEN config.localStorageKey ELSE defaultConfig.localStorageKey]

\* ------------------------------------------------------------ host

\* localStorage.getItem(key) || '' : a missing entry (null) reads as ''.
GetItemOrEmpty(s, key) ==
    IF s[key] = {} THEN "" ELSE CHOOSE v \in s[key] : TRUE

\* localStorage.setItem(key, value)
SetItem(s, key, value) == [s EXCEPT ![key] = {value}]

\* window.matchMedia(query): a new MediaQueryList, named by the call that made it.
matchMedia(query, call) == [media |-> query, call |-> call]

\* .matches of a dark or light query
QueryMatches(query) == mm = "supported" /\ matches[query]

addEventListener(L, mql, handler) == L \cup {[target |-> mql, handler |-> handler]}

removeEventListener(L, mql, handler) == L \ {[target |-> mql, handler |-> handler]}

\* ------------------------------------------------------------ resolution

\* Lines 154-155: getItem is called only inside if (useLocalStorage && localStorage).
StorageReads(useLocalStorage, localStorageKey) ==
    IF useLocalStorage /\ ls = "ok" THEN {localStorageKey} ELSE {}

\* Lines 161-175: the two media queries, dark first, then defaultValue.
OsOrDefault(defaultValue) ==
    IF mm # "absent" /\ QueryMatches(colorSchemes.dark) THEN colorSchemes.dark
    ELSE IF mm # "absent" /\ QueryMatches(colorSchemes.light) THEN colorSchemes.light
    ELSE defaultValue

\* Variant: the media queries are consulted before the stored value.
getInitialColorScheme_OsFirst(defaultValue, useLocalStorage, localStorageKey) ==
    LET localValue == GetItemOrEmpty(store, localStorageKey)
    IN  IF useLocalStorage /\ ls = "throws"
        THEN [raised |-> TRUE, value |-> defaultValue, read |-> {}]
        ELSE IF mm # "absent" /\ QueryMatches(colorSchemes.dark)
        THEN [raised |-> FALSE, value |-> colorSchemes.dark, read |-> {}]
        ELSE IF mm # "absent" /\ QueryMatches(colorSchemes.light)
        THEN [raised |-> FALSE, value |-> colorSchemes.light, read |-> {}]
        ELSE IF useLocalStorage /\ ls = "ok"
                /\ (localValue = "dark" \/ localValue = "light")
        THEN [raised |-> FALSE, value |-> localValue, read |-> {localStorageKey}]
        ELSE [raised |-> FALSE, value |-> defaultValue,
              read |-> StorageReads(useLocalStorage, localStorageKey)]

\* Variant: the light query is tested before the dark one.
getInitialColorScheme_LightFirst(defaultValue, useLocalStorage, localStorageKey) ==
    LET localValue == GetItemOrEmpty(store, localStorageKey)
    IN  IF useLocalStorage /\ ls = "throws"
        THEN [raised |-> TRUE, value |-> defaultValue, read |-> {}]
        ELSE IF useLocalStorage /\ ls = "ok"
                /\ (localValue = "dark" \/ localValue = "light")
        THEN [raised |-> FALSE, value |-> localValue, read |-> {localStorageKey}]
        ELSE IF mm # "absent" /\ QueryMatches(colorSchemes.light)
        THEN [raised |-> FALSE, value |-> colorSchemes.light,
              read |-> StorageReads(useLocalStorage, localStorageKey)]
        ELSE IF mm # "absent" /\ QueryMatches(colorSchemes.dark)
        THEN [raised |-> FALSE, value |-> colorSchemes.dark,
              read |-> StorageReads(useLocalStorage, localStorageKey)]
        ELSE [raised |-> FALSE, value |-> defaultValue,
              read |-> StorageReads(useLocalStorage, localStorageKey)]

\* Variant: an unusable stored value ends the resolution with defaultValue.
getInitialColorScheme_NoFallThrough(defaultValue, useLocalStorage, localStorageKey) ==
    LET localValue == GetItemOrEmpty(store, localStorageKey)
    IN  IF useLocalStorage /\ ls = "throws"
        THEN [raised |-> TRUE, value |-> defaultValue, read |-> {}]
        ELSE IF useLocalStorage /\ ls = "ok"
        THEN [raised |-> FALSE,
              value |-> IF localValue = "dark" \/ localValue = "light"
                        THEN localValue ELSE defaultValue,
              read |-> {localStorageKey}]
        ELSE [raised |-> FALSE, value |-> OsOrDefault(defaultValue), read |-> {}]

\* Variant: the stored value is read and used whatever useLocalStorage says.
getInitialColorScheme_IgnoreFlag(defaultValue, useLocalStorage, localStorageKey) ==
    LET localValue == GetItemOrEmpty(store, localStorageKey)
    IN  IF ls = "throws"
        THEN [raised |-> TRUE, value |-> defaultValue, read |-> {}]
        ELSE IF ls = "ok" /\ (localValue = "dark" \/ localValue = "light")
        THEN [raised |-> FALSE, value |-> localValue, read |-> {localStorageKey}]
        ELSE [raised |-> FALSE, value |-> OsOrDefault(defaultValue),
              read |-> IF ls = "ok" THEN {localStorageKey} ELSE {}]

\* getInitialColorScheme: [raised, value, read], read being the keys it asked
\* the store for.
getInitialColorScheme(defaultValue, useLocalStorage, localStorageKey) ==
    LET localValue == GetItemOrEmpty(store, localStorageKey)
        osValue == OsOrDefault(defaultValue)
        read == StorageReads(useLocalStorage, localStorageKey)
    IN  IF useLocalStorage /\ ls = "throws"
        THEN [raised |-> TRUE, value |-> defaultValue, read |-> {}]
        ELSE IF useLocalStorage /\ ls = "ok"
                /\ (localValue = "dark" \/ localValue = "light")
        THEN [raised |-> FALSE, value |-> localValue, read |-> read]
        ELSE [raised |-> FALSE, value |-> osValue, read |-> read]

\* ------------------------------------------------------------ update path

\* The functions useCallback builds in a render of instance i with inputs p:
\* each closes over the instance's setColorScheme and over useLocalStorage and
\* localStorageKey (through handleChangeColorScheme); `value` is the scheme a
\* media-query handler passes on (defaultValue for handleSetDefaultColorScheme).
Closure(p, i, value) ==
    [inst |-> i,
     useLocalStorage |-> p.useLocalStorage,
     localStorageKey |-> p.localStorageKey,
     value |-> value]

handleSetDarkColorSchemeOf(p, i) == Closure(p, i, colorSchemes.dark)

handleSetLightColorSchemeOf(p, i) == Closure(p, i, colorSchemes.light)

\* Variant: the no-preference handler passes the channel's own name on.
handleSetDefaultColorSchemeOf_Literal(p, i) == Closure(p, i, colorSchemes.noPreference)

handleSetDefaultColorSchemeOf(p, i) == Closure(p, i, p.defaultValue)

\* What an operation has done so far: the cell, the store, whether it raised,
\* the keys it wrote, and the order in which the cell changed ("state") and
\* the store was written ("write"). When React batches the call (batched), a
\* state update is applied when the call returns (deferred), otherwise at once.
Outcome(c, s, r, w) ==
    [colorScheme |-> c, store |-> s, raised |-> r, wrote |-> w,
     batched |-> FALSE, deferred |-> FALSE, trace |-> <<>>]

\* setColorScheme(colorSchema) of instance h.inst: React drops the update when
\* that instance is no longer mounted.
setColorScheme(h, st, colorSchema) ==
    IF mounted /\ h.inst = inst
    THEN IF st.batched
         THEN [st EXCEPT !.colorScheme = colorSchema, !.deferred = TRUE]
         ELSE [st EXCEPT !.colorScheme = colorSchema,
                         !.trace = Append(st.trace, "state")]
    ELSE st

\* The call returns: React applies a batched update.
Commit(st) ==
    IF st.deferred
    THEN [st EXCEPT !.deferred = FALSE, !.trace = Append(st.trace, "state")]
    ELSE st

\* useState keeps the cell and re-renders the provider, and with it every
\* consumer of the context, only when the new value differs from the old one.
Rerenders(old, new) == old # new

\* Variant: the write goes to the default key, not to the configured one.
WriteThrough_DefaultKey(h, st, colorSchema) ==
    IF ~h.useLocalStorage THEN st
    ELSE IF ls = "throws" THEN [st EXCEPT !.raised = TRUE]
    ELSE IF ls = "ok"
    THEN [st EXCEPT !.store = SetItem(st.store, defaultConfig.localStorageKey, colorSchema),
                    !.wrote = st.wrote \cup {defaultConfig.localStorageKey},
                    !.trace = Append(st.trace, "write")]
    ELSE st

\* if (useLocalStorage && localStorage) localStorage.setItem(localStorageKey, colorSchema)
WriteThrough(h, st, colorSchema) ==
    IF ~h.useLocalStorage THEN st
    ELSE IF ls = "throws" THEN [st EXCEPT !.raised = TRUE]
    ELSE IF ls = "ok"
    THEN [st EXCEPT !.store = SetItem(st.store, h.localStorageKey, colorSchema),
                    !.wrote = st.wrote \cup {h.localStorageKey},
                    !.trace = Append(st.trace, "write")]
    ELSE st

\* Variant: the state update is left out.
handleChangeColorScheme_NoState(h, st, colorSchema) ==
    WriteThrough(h, st, colorSchema)

\* Variant: a set of the value the cell already holds does nothing.
handleChangeColorScheme_Dedup(h, st, colorSchema) ==
    IF st.colorScheme = colorSchema THEN st
    ELSE WriteThrough(h, setColorScheme(h, st, colorSchema), colorSchema)

handleChangeColorScheme(h, st, colorSchema) ==
    WriteThrough(h, setColorScheme(h, st, colorSchema), colorSchema)

\* Variant: the handler does not look at event.matches.
HandleEvent_IgnoreFlag(h, st, eventMatches) ==
    handleChangeColorScheme(h, st, h.value)

\* (event) => event.matches && handleChangeColorScheme(value)
HandleEvent(h, st, eventMatches) ==
    IF eventMatches THEN handleChangeColorScheme(h, st, h.value) ELSE st

\* The host reports a change to every MediaQueryList of the channel, oldest first.
RECURSIVE Dispatch(_, _, _)
Dispatch(L, st, eventMatches) ==
    IF L = {} THEN st
    ELSE LET l == CHOOSE x \in L : \A y \in L : x.target.call[1] <= y.target.call[1]
         IN  Dispatch(L \ {l}, HandleEvent(l.handler, st, eventMatches), eventMatches)

\* ------------------------------------------------------------ effect

\* Variant: the guard does not look at the storage choice.
EffectGuard_IgnoreStorage(p) ==
    IF ~p.listenWindowEvents THEN "skip"
    ELSE IF mm = "absent" THEN "raise"
    ELSE IF mm = "supported" THEN "go"
    ELSE "skip"

\* The guard of the effect: "go" (subscribe), "skip", or "raise".
EffectGuard(p) ==
    IF ~p.listenWindowEvents THEN "skip"
    ELSE IF p.useLocalStorage /\ ls = "throws" THEN "raise"
    ELSE IF p.useLocalStorage /\ ls = "ok" THEN "skip"
    ELSE IF mm = "absent" THEN "raise"
    ELSE IF mm = "supported" THEN "go"
    ELSE "skip"

\* The three addEventListener calls of effect run `run`.
Subscribe(L, p, i, run) ==
    LET call == <<run, "effect">>
        L1 == addEventListener(L, matchMedia(colorSchemes.dark, call),
                               handleSetDarkColorSchemeOf(p, i))
        L2 == addEventListener(L1, matchMedia(colorSchemes.light, call),
                               handleSetLightColorSchemeOf(p, i))
    IN  addEventListener(L2, matchMedia(colorSchemes.noPreference, call),
                         handleSetDefaultColorSchemeOf(p, i))

\* The cleanup function returned by effect run `run`.
Unsubscribe(L, p, i, run) ==
    LET call == <<run, "cleanup">>
        L1 == removeEventListener(L, matchMedia(colorSchemes.dark, call),
                                  handleSetDarkColorSchemeOf(p, i))
        L2 == removeEventListener(L1, matchMedia(colorSchemes.light, call),
                                  handleSetLightColorSchemeOf(p, i))
    IN  removeEventListener(L2, matchMedia(colorSchemes.noPreference, call),
                            handleSetDefaultColorSchemeOf(p, i))

\* React runs the previous effect's cleanup, when it returned one.
RunCleanup(L) == IF cleanup THEN Unsubscribe(L, props, inst, renders) ELSE L

\* useEffect body for inputs p in commit `run`: [raised, cleanup, listeners]
RunEffect(L, p, i, run) ==
    LET g == EffectGuard(p)
    IN  [raised |-> g = "raise",
         cleanup |-> g = "go",
         listeners |-> IF g = "go" THEN Subscribe(L, p, i, run) ELSE L]

\* ------------------------------------------------------------ operations

\* The record of an operation: its inputs, the keys it wrote and read, and,
\* for a set, the order of its effects and the scheme it started from.
Call(op, v, chan, m, wrote) ==
    [op |-> op, v |-> v, chan |-> chan, matches |-> m, wrote |-> wrote,
     read |-> {}, order |-> <<>>, prev |-> ""]

\* The wrapped component has not been rendered.
NoProps == [k \in {} |-> ""]

NoStore == [k \in Keys |-> {}]

\* The host before the program runs.
HostInit ==
    /\ ls \in {"ok", "falsy", "throws"}
    /\ mm \in {"absent", "unsupported", "supported"}
    /\ matches \in [DarkModeValues -> BOOLEAN]
    /\ (mm # "supported" => matches = [c \in DarkModeValues |-> FALSE])

\* No provider has been rendered; a read outside a provider gives the context's
\* default value, light.
ProviderInit ==
    /\ mounted = FALSE
    /\ inst = 0
    /\ renders = 0
    /\ props = MergeProps(Undefined, [f \in {} |-> TRUE])
    /\ colorScheme = colorSchemes.light
    /\ cleanup = FALSE
    /\ listeners = {}
    /\ raised = FALSE
    /\ injected = NoProps
    /\ last = Call("none", "", "", FALSE, {})

\* A first visit: nothing is stored yet.
Init == HostInit /\ store = NoStore /\ ProviderInit

\* A later visit: the store holds whatever earlier sessions or other scripts left.
InitStored ==
    /\ HostInit
    /\ store \in [Keys -> {{}} \cup {{v} : v \in StoredStrings}]
    /\ (ls # "ok" => store = NoStore)
    /\ ProviderInit

\* <DarkModeProvider defaultValue config> is rendered and committed.
Mount(defaultValue, config) ==
    LET p == MergeProps(defaultValue, config)
        run == renders + 1
        init == getInitialColorScheme(p.defaultValue, p.useLocalStorage, p.localStorageKey)
        eff == RunEffect(listeners, p, run, run)
    IN  /\ ~mounted
        /\ renders < MaxRenders
        /\ renders' = run
        /\ inst' = run
        /\ props' = p
        /\ last' = [Call("mount", "", "", FALSE, {}) EXCEPT !.read = init.read]
        /\ IF init.raised
           THEN /\ raised' = TRUE
                /\ UNCHANGED <<mounted, colorScheme, cleanup, listeners>>
           ELSE /\ colorScheme' = init.value
                /\ mounted' = ~eff.raised
                /\ raised' = (raised \/ eff.raised)
                /\ cleanup' = eff.cleanup
                /\ listeners' = eff.listeners
        /\ UNCHANGED <<host, matches, store, injected>>

\* The provider is re-rendered with changed inputs.
UpdateProps(defaultValue, config) ==
    LET p == MergeProps(defaultValue, config)
        run == renders + 1
        eff == RunEffect(RunCleanup(listeners), p, inst, run)
    IN  /\ mounted
        /\ Cardinality({f \in DOMAIN p : p[f] # props[f]}) = 1
        /\ renders < MaxRenders
        /\ renders' = run
        /\ props' = p
        /\ last' = Call("update", "", "", FALSE, {})
        /\ mounted' = ~eff.raised
        /\ raised' = (raised \/ eff.raised)
        /\ cleanup' = eff.cleanup
        /\ listeners' = eff.listeners
        /\ UNCHANGED <<host, matches, store, inst, colorScheme, injected>>

\* A consumer calls the setter it read from the context, from a place where
\* React batches state updates (batched) or applies them at once.
Set(v, batched) ==
    LET h == Closure(props, inst, v)
        begin == [Outcome(colorScheme, store, raised, {}) EXCEPT !.batched = batched]
        st == Commit(handleChangeColorScheme(h, begin, v))
    IN  /\ mounted
        /\ colorScheme' = st.colorScheme
        /\ store' = st.store
        /\ raised' = st.raised
        /\ last' = [Call("set", v, "", FALSE, st.wrote)
                        EXCEPT !.order = st.trace, !.prev = colorScheme]
        /\ UNCHANGED <<host, matches, mounted, inst, renders, props, cleanup,
                       listeners, injected>>

\* The host reports a change of one of the three preference queries: the dark
\* or light query's result becomes m, or the no-preference query (whose result
\* the program never reads) reports m. The order of the effects inside the
\* listeners is not recorded: a listener changes the cell and nothing else.
\* The preference is one of dark, light and no-preference: a query starts to
\* match only when no other matches, and the no-preference query changes only
\* while neither the dark nor the light query matches.
OsEvent(chan, m) ==
    LET L == {l \in listeners : l.target.media = chan}
        st == Dispatch(L, Outcome(colorScheme, store, raised, {}), m)
    IN  /\ mm = "supported"
        /\ (chan \in DarkModeValues => matches[chan] # m)
        /\ ((chan \notin DarkModeValues \/ m) => \A o \in DarkModeValues : ~matches[o])
        /\ matches' = IF chan \in DarkModeValues THEN [matches EXCEPT ![chan] = m]
                      ELSE matches
        /\ colorScheme' = st.colorScheme
        /\ store' = st.store
        /\ raised' = st.raised
        /\ last' = Call("event", "", chan, m, st.wrote)
        /\ UNCHANGED <<host, mounted, inst, renders, props, cleanup, listeners,
                       injected>>

\* The provider is removed from the tree.
Unmount ==
    /\ mounted
    /\ mounted' = FALSE
    /\ listeners' = RunCleanup(listeners)
    /\ cleanup' = FALSE
    /\ last' = Call("unmount", "", "", FALSE, {})
    /\ UNCHANGED <<host, matches, store, inst, renders, props, colorScheme, raised,
                   injected>>

Next ==
    \/ \E d \in DefaultValueInputs, c \in ConfigInputs : Mount(d, c)
    \/ \E d \in DefaultValueInputs, c \in ConfigInputs : UpdateProps(d, c)
    \/ \E v \in DarkModeValues, batched \in BOOLEAN : Set(v, batched)
    \/ \E chan \in Channels, m \in BOOLEAN : OsEvent(chan, m)
    \/ Unmount

Spec == Init /\ [][Next]_vars

\* ------------------------------------------------------------ the wrapper

\* The setter the provider puts in the context: handleChangeColorScheme of
\* instance i, closed over the inputs of its last render.
handleChangeColorSchemeOf(p, i) ==
    [kind |-> "handleChangeColorScheme", inst |-> i,
     useLocalStorage |-> p.useLocalStorage, localStorageKey |-> p.localStorageKey]

\* The context's default setter, () => null.
NoopSetter == [kind |-> "noop"]

\* What useContext(DarkModeContext) gives: the provider's pair, or the
\* context's default pair when there is no provider above.
ContextValue ==
    IF mounted
    THEN <<colorScheme, handleChangeColorSchemeOf(props, inst)>>
    ELSE <<colorSchemes.light, NoopSetter>>

\* The own enumerable properties of a two-element array, as an object spread
\* sees them.
ArrayKeys == {"0", "1"}

\* <Component {...props} {...value} />: the own props, then the spread of the
\* pair, whose properties are its indices and which wins on equal names.
DarkModeConsumer(ownProps, value) ==
    [k \in DOMAIN ownProps \cup ArrayKeys |->
        IF k = "0" THEN value[1]
        ELSE IF k = "1" THEN value[2]
        ELSE ownProps[k]]

\* The props a parent passes to the wrapped component.
OwnPropsInputs == {NoProps, [title |-> "t"], [k \in {"0"} |-> "own"]}

\* The wrapped component is rendered with own props.
RenderConsumer(ownProps) ==
    /\ injected' = DarkModeConsumer(ownProps, ContextValue)
    /\ last' = Call("render", "", "", FALSE, {})
    /\ UNCHANGED <<host, matches, store, mounted, inst, renders, props, colorScheme,
                   cleanup, listeners, raised>>

\* A provider, the sets of its consumers and the renders of a wrapped component.
NextConsumer ==
    \/ \E d \in DefaultValueInputs, c \in ConfigInputs : Mount(d, c)
    \/ \E v \in DarkModeValues, batched \in BOOLEAN : Set(v, batched)
    \/ \E ownProps \in OwnPropsInputs : RenderConsumer(ownProps)

SpecConsumer == Init /\ [][NextConsumer]_vars

\* Initial resolution alone, over every content of the store.
NextResolve == \E d \in DefaultValueInputs, c \in ConfigInputs : Mount(d, c)

SpecResolve == InitStored /\ [][NextResolve]_vars

\* ------------------------------------------------------------ vocabulary

\* useLocalStorage is true and persistence is available.
PersistenceChosen == props.useLocalStorage /\ ls = "ok"

\* The eligibility condition of the watcher, in the words of the specification.
Eligible ==
    /\ props.listenWindowEvents
    /\ ~(props.useLocalStorage /\ ls = "ok")
    /\ mm = "supported"

OsDark == mm = "supported" /\ matches["dark"]

OsLight == mm = "supported" /\ matches["light"]

ValidStored == {{"dark"}, {"light"}}

\* The subscriptions added by the effect run of the current commit.
CurrentSubscriptions == {l \in listeners : l.target.call = <<renders, "effect">>}

\* The subscriptions bound to handlers of the current provider instance.
InstanceSubscriptions == {l \in listeners : l.handler.inst = inst}

\* ------------------------------------------------------------ claims

\* C1: when useLocalStorage is true, persistence is available and the value
\* stored under the configured key is exactly "dark" or "light", the provider
\* is constructed with that stored value as its scheme, whatever the media
\* queries report and whatever defaultValue is.
C1_PersistedTier ==
    (/\ last.op = "mount"
     /\ props.useLocalStorage
     /\ ls = "ok"
     /\ store[props.localStorageKey] \in ValidStored)
    => (mounted /\ store[props.localStorageKey] = {colorScheme})

\* C1 witness: a stored "dark" wins over a matching light query and a light default.
C1_Witness ==
    /\ last.op = "mount"
    /\ mounted
    /\ props.useLocalStorage
    /\ ls = "ok"
    /\ store[props.localStorageKey] = {"dark"}
    /\ OsLight /\ ~OsDark
    /\ props.defaultValue = "light"
    /\ colorScheme = "dark"

\* C2: with useLocalStorage false the initial scheme is dark when the dark
\* query matches, otherwise light when the light query matches, otherwise
\* defaultValue; dark wins when both match.
C2_OsThenDefault ==
    (last.op = "mount" /\ ~props.useLocalStorage)
    => colorScheme = (IF OsDark THEN "dark"
                      ELSE IF OsLight THEN "light"
                      ELSE props.defaultValue)

\* C2 witness: both queries match, the default is light, and dark is chosen.
C2_Witness ==
    /\ last.op = "mount"
    /\ mounted
    /\ ~props.useLocalStorage
    /\ OsDark /\ OsLight
    /\ props.defaultValue = "light"
    /\ colorScheme = "dark"

\* C3: after set(v) a read gives v and, when useLocalStorage is true and
\* persistence is available, the store holds v under the configured key; after
\* a channel event with match=true delivered to a subscribed provider a read
\* gives the channel's value (defaultValue for no-preference); and channel
\* events never write the store, so it keeps the last set value.
C3_ReadReflectsLastUpdate ==
    /\ (last.op = "set" /\ mounted)
       => /\ colorScheme = last.v
          /\ (PersistenceChosen => store[props.localStorageKey] = {last.v})
    /\ (last.op = "event" /\ last.matches /\ mounted /\ cleanup)
       => colorScheme = (IF last.chan = "no-preference"
                         THEN props.defaultValue ELSE last.chan)
    /\ (last.op = "event" => last.wrote = {})

\* C3 witness: a set("dark") on a persisting provider whose scheme was light.
C3_Witness ==
    /\ last.op = "set"
    /\ last.v = "dark"
    /\ mounted
    /\ PersistenceChosen
    /\ colorScheme = "dark"
    /\ store[props.localStorageKey] = {"dark"}
    /\ OsLight /\ ~OsDark

\* C4: the store starts empty in Spec, so an entry under a key is what the last
\* persisting set(x) with that key wrote; a provider constructed afterwards with
\* useLocalStorage=true and the same key starts with x, whatever the media
\* queries report and whatever its defaultValue is.
C4_RoundTrip ==
    /\ (last.op = "set" /\ mounted /\ PersistenceChosen)
       => store[props.localStorageKey] = {last.v}
    /\ (/\ last.op = "mount"
        /\ PersistenceChosen
        /\ store[props.localStorageKey] # {})
       => (mounted /\ store[props.localStorageKey] = {colorScheme})

\* C4 witness: a second provider starts dark from the entry a set("dark") left
\* under the non-default key, against a matching light query and a light default.
C4_Witness ==
    /\ last.op = "mount"
    /\ inst = 2
    /\ mounted
    /\ PersistenceChosen
    /\ props.localStorageKey = "altKey"
    /\ store["altKey"] = {"dark"}
    /\ colorScheme = "dark"
    /\ OsLight /\ ~OsDark
    /\ props.defaultValue = "light"

\* C5: the effect run of a live provider adds its three subscriptions (one per
\* channel) exactly when listenWindowEvents is true, persistence is not chosen
\* and available, and preference querying is supported; in every other
\* configuration the run adds none.
C5_WatcherEligibility ==
    /\ mounted =>
         /\ (Eligible <=> cleanup)
         /\ (Eligible =>
               /\ Cardinality(CurrentSubscriptions) = 3
               /\ \A c \in Channels :
                    \E l \in CurrentSubscriptions :
                        l.target.media = c /\ l.handler.inst = inst)
    /\ ~Eligible => CurrentSubscriptions = {}

\* C5 witness: useLocalStorage is true but persistence is unavailable, so the
\* watcher is active.
C5_Witness ==
    /\ mounted
    /\ props.useLocalStorage
    /\ ls = "falsy"
    /\ Eligible
    /\ Cardinality(CurrentSubscriptions) = 3

\* C6 (as claimed): after teardown every subscription the provider added has
\* been removed, so no handler of it is left to fire.
C6_TeardownRemovesSubscriptions ==
    last.op = "unmount" => InstanceSubscriptions = {}

\* C7: while the watcher is active, a no-preference event with match=true sets
\* the scheme to the configured defaultValue, never to "no-preference"; a dark
\* event sets dark and a light event sets light.
C7_ChannelValues ==
    (last.op = "event" /\ last.matches /\ mounted /\ Eligible)
    => /\ colorScheme # colorSchemes.noPreference
       /\ (last.chan = colorSchemes.noPreference => colorScheme = props.defaultValue)
       /\ (last.chan = colorSchemes.dark => colorScheme = colorSchemes.dark)
       /\ (last.chan = colorSchemes.light => colorScheme = colorSchemes.light)

\* C7 witness: a no-preference event brings a provider configured with
\* defaultValue dark to dark while neither the dark nor the light query matches.
C7_Witness ==
    /\ last.op = "event" /\ last.chan = "no-preference" /\ last.matches
    /\ mounted /\ Eligible
    /\ props.defaultValue = "dark"
    /\ colorScheme = "dark"
    /\ ~OsDark /\ ~OsLight

\* C8: in every reachable state the scheme is dark or light, never no-preference.
C8_SchemeIsBinary == colorScheme \in DarkModeValues

\* C8 witness: a no-preference event has been handled after a re-render.
C8_Witness ==
    /\ last.op = "event" /\ last.chan = "no-preference" /\ last.matches
    /\ mounted /\ cleanup
    /\ renders = 2
    /\ colorScheme = "light"

\* C9 (as claimed): every set writes when useLocalStorage is true, nothing is
\* written when it is false, and a write goes to the configured key only.
C9_WritesIffUseLocalStorage ==
    /\ (last.op = "set" /\ mounted)
       => (last.wrote = IF props.useLocalStorage THEN {props.localStorageKey} ELSE {})
    /\ (~props.useLocalStorage => last.wrote = {})

\* C9 (amended): a set writes exactly when useLocalStorage is true and
\* persistence is available; no other operation writes; the write stores the
\* set value under the configured key and every other key keeps its entry.
C9_WritesIffPersistenceChosen ==
    [][/\ (last'.op = "set" /\ mounted')
          => (last'.wrote = IF props'.useLocalStorage /\ ls = "ok"
                            THEN {props'.localStorageKey} ELSE {})
       /\ (last'.op # "set" => last'.wrote = {})
       /\ (~props'.useLocalStorage => last'.wrote = {})
       /\ \A k \in Keys :
            IF k \in last'.wrote
            THEN store'[k] = {last'.v} /\ k = props'.localStorageKey
            ELSE store'[k] = store[k]]_vars

\* C9 witness: a set("dark") has written the non-default key and left the
\* default key without an entry.
C9_Witness ==
    /\ last.op = "set" /\ last.v = "dark"
    /\ last.wrote = {"altKey"}
    /\ props.localStorageKey = "altKey"
    /\ store["altKey"] = {"dark"}
    /\ store["__userColorScheme"] = {}

\* C10: with useLocalStorage true and persistence available, a stored value
\* that is not exactly "dark" or "light" (no entry, "", "Dark") is passed over:
\* the initial scheme is what the media queries and defaultValue give, as with
\* useLocalStorage false, and the store is left as it was.
C10_UnusableStoredValue ==
    [][(/\ last'.op = "mount"
        /\ props'.useLocalStorage
        /\ ls = "ok"
        /\ store[props'.localStorageKey] \notin ValidStored)
       => /\ store' = store
          /\ mounted'
          /\ colorScheme' = (IF OsDark THEN "dark"
                             ELSE IF OsLight THEN "light"
                             ELSE props'.defaultValue)]_vars

\* C10 witness: "Dark" is stored, the light query matches, the default is dark.
C10_Witness ==
    /\ last.op = "mount"
    /\ mounted
    /\ props.useLocalStorage
    /\ ls = "ok"
    /\ store[props.localStorageKey] = {"Dark"}
    /\ OsLight /\ ~OsDark
    /\ props.defaultValue = "dark"
    /\ colorScheme = "light"

\* C11: the component produced by the wrapping utility receives the current
\* scheme under the property name colorScheme and the setter under the name
\* handleChangeColorScheme, both equal to the provider's pair.
C11_NamedProps ==
    (last.op = "render" /\ mounted)
    => /\ "colorScheme" \in DOMAIN injected
       /\ injected["colorScheme"] = colorScheme
       /\ "handleChangeColorScheme" \in DOMAIN injected
       /\ injected["handleChangeColorScheme"] = handleChangeColorSchemeOf(props, inst)

\* C12: with useLocalStorage true and persistence unavailable or inaccessible
\* (and the media queries supported), no operation raises: construction
\* resolves the scheme from the media queries and defaultValue, and a set
\* writes nothing and leaves the scheme at the set value.
C12_NoPersistenceNoRaise ==
    (/\ last.op \in {"mount", "set"}
     /\ props.useLocalStorage
     /\ ls # "ok"
     /\ mm = "supported")
    => /\ ~raised
       /\ mounted
       /\ last.wrote = {}
       /\ last.op = "mount"
          => colorScheme = (IF OsDark THEN "dark"
                            ELSE IF OsLight THEN "light"
                            ELSE props.defaultValue)
       /\ last.op = "set" => colorScheme = last.v

\* C13: where the preference-query facility is absent or unsupported (and
\* reading localStorage does not throw), neither construction nor a change of
\* inputs raises, the watcher is not active and holds no subscription, and the
\* initial scheme does not come from a media query.
C13_NoFacilityNoRaise ==
    (/\ last.op \in {"mount", "update"}
     /\ mm # "supported"
     /\ ls # "throws")
    => /\ ~raised
       /\ mounted
       /\ ~cleanup
       /\ CurrentSubscriptions = {}
       /\ (last.op = "mount" /\ ~PersistenceChosen)
          => colorScheme = props.defaultValue

\* C14: with useLocalStorage false, initial resolution asks the store for
\* nothing, does not fail because of the store (the provider is mounted
\* unless the watcher's activation fails for want of matchMedia), and gives
\* what the media queries and defaultValue give, whatever is stored.
C14_NoReadWithoutFlag ==
    (last.op = "mount" /\ ~props.useLocalStorage)
    => /\ last.read = {}
       /\ (mounted \/ (props.listenWindowEvents /\ mm = "absent"))
       /\ colorScheme = (IF OsDark THEN colorSchemes.dark
                         ELSE IF OsLight THEN colorSchemes.light
                         ELSE props.defaultValue)

\* C14 witness: "dark" is stored under the configured key, the light query
\* matches, useLocalStorage is false, and the provider starts light.
C14_Witness ==
    /\ last.op = "mount"
    /\ mounted
    /\ ~props.useLocalStorage
    /\ ls = "ok"
    /\ store[props.localStorageKey] = {"dark"}
    /\ OsLight /\ ~OsDark
    /\ colorScheme = "light"
    /\ last.read = {}

C16_OneHandlerPerChannel ==
    mounted
    => \A chan \in Channels :
         Cardinality({l \in InstanceSubscriptions : l.target.media = chan}) <= 1

\* C17: a channel event whose match flag is false changes neither the scheme
\* nor the store and writes nothing.
C17_UnmatchedEventIgnored ==
    [][(last'.op = "event" /\ ~last'.matches)
       => /\ colorScheme' = colorScheme
          /\ ~Rerenders(colorScheme, colorScheme')
          /\ store' = store
          /\ last'.wrote = {}]_vars

\* C17 witness: the watcher is subscribed, the dark query has stopped
\* matching, and the scheme is still dark.
C17_Witness ==
    /\ last.op = "event"
    /\ ~last.matches
    /\ last.chan = "dark"
    /\ mounted
    /\ cleanup
    /\ \E l \in CurrentSubscriptions : l.target.media = "dark"
    /\ colorScheme = "dark"

C19_StoreMatchesScheme ==
    (/\ mounted
     /\ inst = renders
     /\ PersistenceChosen
     /\ store[props.localStorageKey] # {})
    => store[props.localStorageKey] = {colorScheme}

\* C19 witness: "dark" has been set and stored, then the light query started
\* to match, and the scheme and the entry are both still "dark".
C19_Witness ==
    /\ last.op = "event"
    /\ last.chan = "light"
    /\ last.matches
    /\ mounted
    /\ inst = renders
    /\ PersistenceChosen
    /\ colorScheme = "dark"
    /\ store[props.localStorageKey] = {"dark"}

====
